---- MODULE Spec2Model ----
(***************************************************************************)
(* The audio capture / transcription pipeline of AppState                  *)
(* (electron/main.ts) and the MicrophoneCapture handle                     *)
(* (electron/audio/MicrophoneCapture.ts).                                  *)
(*                                                                         *)
(* JavaScript runs one callback at a time.  A handler that contains no     *)
(* await is one action.  reconfigureAudio is split into its statements     *)
(* (pc), during which no other callback is enabled, so that the order of   *)
(* its statements is visible in the states.  The awaits of startMeeting    *)
(* and endMeeting are the only places where other code runs in between.    *)
(*                                                                         *)
(* SystemAudioCapture, GoogleSTT, IntelligenceManager, WindowHelper,       *)
(* RAGManager and DatabaseManager are imported by main.ts but their code   *)
(* is not part of the sources at hand: they are modelled from the          *)
(* handle contract of spec.md (section 4.1 and 6).                         *)
(***************************************************************************)
EXTENDS Integers, Sequences, FiniteSets, TLC

\* ---------------------------------------------------------------- bounds

\* Spec: startMeeting / endMeeting calls over a run
MaxOps == 3
\* reconfigureAudio runs (startMeeting calls with metadata.audio) over a run
MaxReconf == 1
\* Spec: native chunk callbacks over a run
MaxChunks == 1
\* SpecRouter: startMeeting / endMeeting calls over a run
RouterOps == 2
\* SpecRouter: transcript events over a run
RouterSegs == 2
\* SpecEnd: startMeeting / endMeeting calls over a run
EndOps == 4
\* SpecEnd: transcript events over a run
EndSegs == 2
\* SpecSinks: transcript events over a run
SinkSegs == 3
\* SpecHandle: method calls on the handle over a run
MaxCalls == 4
\* SpecSession: startMeeting / endMeeting calls over a run
SessionOps == 2
\* SpecSession: transcript events over a run
SessionSegs == 2
\* SpecCreds: startMeeting / endMeeting calls over a run
CredOps == 2

\* ------------------------------------------------------------- constants

\* MicrophoneCapture.getSampleRate: the fallback rate
DefaultSampleRate == 16000

\* the capture sources a role can have had: the one of the setup and two
\* (preferred, default) for every reconfigureAudio
MaxCaps == 1 + 2 * MaxReconf

Roles == {"system", "microphone"}

Other(r) == IF r = "system" THEN "microphone" ELSE "system"

\* this.systemAudioCapture = null / this.microphoneCapture = null
Null == 0

\* a device id that was not given (undefined)
NoDevice == "default"

\* the rate the native capture of a device reports; 0 stands for a device
\* that reports no rate
NativeRate(dev) ==
  CASE dev = "mic-2" -> 44100
    [] dev = "spk-2" -> 0
    [] OTHER -> 48000

\* what a stream may emit: (text, isFinal, confidence in percent)
Segments ==
  { [text |-> "hello", isFinal |-> FALSE, confidence |-> 40],
    [text |-> "hello world", isFinal |-> TRUE, confidence |-> 92] }

\* the payload SpecRouter's transcript events carry
RouterSegment == [text |-> "hello world", isFinal |-> TRUE, confidence |-> 92]

\* a stream that was given no credentials path uses the environment's
NoKey == "env"

\* the paths updateGoogleCredentials may be called with
KeyPaths == {"key-a.json", "key-b.json"}

\* the milliseconds that may pass between the two Date.now() calls of a
\* 'transcript' listener
Elapsed == {0, 1}

\* the rate of a GoogleSTT stream that was never told a rate
SttInitialRates == {16000}

\* the metadata startMeeting may be called with
NoMetadata == [given |-> FALSE, audio |-> FALSE, input |-> NoDevice, output |-> NoDevice]

Metadatas ==
  { NoMetadata,
    [given |-> TRUE, audio |-> FALSE, input |-> NoDevice, output |-> NoDevice] }
  \cup
  { [given |-> TRUE, audio |-> TRUE, input |-> "mic-2", output |-> NoDevice],
    [given |-> TRUE, audio |-> TRUE, input |-> NoDevice, output |-> "spk-2"],
    [given |-> TRUE, audio |-> TRUE, input |-> "mic-2", output |-> "spk-2"] }

VARIABLES
  rustLoaded,   \* RustMicCapture was found in the native module
  caps,         \* role -> the capture sources constructed so far, in order
  capture,      \* role -> index in caps of this.systemAudioCapture /
                \*         this.microphoneCapture, or Null
  stt,          \* role -> this.googleSTT / this.googleSTT_User
  pc,           \* the statement of reconfigureAudio that runs next, or "idle"
  rc,           \* the running reconfigureAudio: role, attempt, arguments
  rcOut,        \* role -> how the role's block of the last reconfigureAudio
                \*         went, and how many of its constructors threw
  smPc,         \* the startMeeting in flight: "none", "reconf", "await"
  emPc,         \* the endMeeting in flight: "none", "awaitStop", "awaitRag"
  metadata,     \* what intelligenceManager.setMeetingMetadata was last given
  hist,         \* the lifecycle calls made so far
  startRes,     \* role -> what the last start() of the role's capture did
  rejected,     \* a startMeeting / endMeeting promise was rejected
  chunkNo,      \* native chunk callbacks so far
  emitted,      \* role -> the 'data' events emitted by the role's captures
  written,      \* role -> the write() calls made on the role's stream
  segNo,        \* transcript events so far
  transcripts,  \* role -> the 'transcript' events emitted by the role's stream
  intel,        \* what intelligenceManager.handleTranscript received
  launcher,     \* what the launcher window received
  overlay,      \* what the overlay window received
  clock,        \* what Date.now() returns, in milliseconds since the start
  errLog,       \* the roles whose 'error' listeners logged an error
  ragManager,   \* this.ragManager is not null
  session,      \* segments the intelligence manager holds for the session
  db,           \* the meetings the database holds, oldest first
  rag,          \* the meeting ids ragManager.processMeeting was given
  endLog,       \* the steps of the last endMeeting, in order
  creds,        \* role -> the credentials path the role's stream was given
  mic,          \* SpecHandle: a MicrophoneCapture whose methods are called
  trace         \* SpecHandle: the calls made on mic, with what each did

pipeVars == <<rustLoaded, caps, capture, stt>>
callVars == <<pc, rc, rcOut, smPc, emPc, metadata, hist, startRes, rejected>>
audioVars == <<chunkNo, emitted, written>>
routeVars == <<segNo, transcripts, intel, launcher, overlay, clock>>
storeVars == <<ragManager, session, db, rag, endLog>>
unitVars == <<mic, trace>>
vars == <<pipeVars, callVars, audioVars, routeVars, errLog, storeVars, creds, unitVars>>

\* ------------------------------------------------------ capture handles

\* a capture source as constructed: not recording, no listeners
NewCapture(dev, mon, origin, gen) ==
  [ dev |-> dev,            \* deviceId
    monitor |-> mon,        \* this.monitor is set
    nrate |-> NativeRate(dev),  \* what the native monitor reports as its rate
    isRecording |-> FALSE,
    native |-> FALSE,       \* the native capture runs and calls back
    dataL |-> FALSE,        \* a 'data' listener is attached
    errL |-> FALSE,         \* an 'error' listener is attached
    origin |-> origin,      \* "setup", or the attempt: "pref", "dflt"
    gen |-> gen,            \* the reconfigureAudio run that made it, 0: setup
    reported |-> 0 ]        \* the rate reconfigureAudio read from it

\* new MicrophoneCapture(deviceId): without the Rust class there is no monitor
MicrophoneCapture_new(dev, origin, gen) ==
  NewCapture(dev, rustLoaded, origin, gen)

\* new SystemAudioCapture(deviceId)
SystemAudioCapture_new(dev, origin, gen) ==
  NewCapture(dev, TRUE, origin, gen)

\* a variant of MicrophoneCapture_getSampleRate without `|| 16000`
MicrophoneCapture_getSampleRate_NoFallback(c) ==
  IF c.monitor THEN c.nrate ELSE 0

\* getSampleRate(): this.monitor?.getSampleRate() || 16000
MicrophoneCapture_getSampleRate(c) ==
  IF c.monitor /\ c.nrate # 0 THEN c.nrate ELSE DefaultSampleRate

SystemAudioCapture_getSampleRate(c) ==
  IF c.monitor /\ c.nrate # 0 THEN c.nrate ELSE DefaultSampleRate

\* emit('error', e): EventEmitter throws when no 'error' listener is attached
EmitErrorThrows(c) == ~c.errL

\* a variant of MicrophoneCapture_start without `if (this.isRecording) return`
MicrophoneCapture_start_NoGuard(c, nativeFails) ==
  IF ~c.monitor THEN [cap |-> c, res |-> "uninitialised", threw |-> FALSE]
  ELSE IF nativeFails THEN [cap |-> c, res |-> "failed", threw |-> EmitErrorThrows(c)]
  ELSE [cap |-> [c EXCEPT !.isRecording = TRUE, !.native = TRUE],
        res |-> "started", threw |-> FALSE]

\* start(): [cap, res, threw]
MicrophoneCapture_start(c, nativeFails) ==
  IF c.isRecording THEN [cap |-> c, res |-> "already", threw |-> FALSE]
  ELSE IF ~c.monitor THEN [cap |-> c, res |-> "uninitialised", threw |-> FALSE]
  ELSE IF nativeFails THEN [cap |-> c, res |-> "failed", threw |-> EmitErrorThrows(c)]
  ELSE [cap |-> [c EXCEPT !.isRecording = TRUE, !.native = TRUE],
        res |-> "started", threw |-> FALSE]

\* what a start() call did, by its result: the native start and the event
\* emitted after it
MicrophoneCapture_startDid(res) ==
  CASE res = "started" -> <<"native.start", "emit.start">>
    [] res = "failed" -> <<"native.start", "emit.error">>
    [] OTHER -> << >>

\* what a stop() call on c does: the native stop, which may throw, and the
\* 'stop' event
MicrophoneCapture_stopDid(c) ==
  IF c.isRecording THEN <<"native.stop", "emit.stop">> ELSE << >>

\* a variant of MicrophoneCapture_stop that leaves isRecording set
MicrophoneCapture_stop_KeepsRecording(c, nativeFails) == c

\* a variant of MicrophoneCapture_stop without the try around the native
\* stop: a throw leaves the handle as it was
MicrophoneCapture_stop_ThrowLeaves(c, nativeFails) ==
  IF ~c.isRecording THEN c
  ELSE IF nativeFails THEN c
  ELSE [c EXCEPT !.monitor = FALSE, !.isRecording = FALSE, !.native = FALSE]

\* stop(): the monitor is dropped whether or not the native stop threw; when
\* it threw the native capture may go on calling back
MicrophoneCapture_stop(c, nativeFails) ==
  IF ~c.isRecording THEN c
  ELSE [c EXCEPT !.monitor = FALSE, !.isRecording = FALSE,
                 !.native = IF nativeFails THEN @ ELSE FALSE]

SystemAudioCapture_start(c, nativeFails) ==
  IF c.isRecording THEN [cap |-> c, res |-> "already", threw |-> FALSE]
  ELSE IF nativeFails THEN [cap |-> c, res |-> "failed", threw |-> EmitErrorThrows(c)]
  ELSE [cap |-> [c EXCEPT !.isRecording = TRUE, !.native = TRUE],
        res |-> "started", threw |-> FALSE]

SystemAudioCapture_stop(c, nativeFails) ==
  IF ~c.isRecording THEN c
  ELSE [c EXCEPT !.isRecording = FALSE, !.native = FALSE]

Capture_new(r, dev, origin, gen) ==
  IF r = "system" THEN SystemAudioCapture_new(dev, origin, gen)
  ELSE MicrophoneCapture_new(dev, origin, gen)

Capture_getSampleRate(r, c) ==
  IF r = "system" THEN SystemAudioCapture_getSampleRate(c)
  ELSE MicrophoneCapture_getSampleRate(c)

Capture_start(r, c, nativeFails) ==
  IF r = "system" THEN SystemAudioCapture_start(c, nativeFails)
  ELSE MicrophoneCapture_start(c, nativeFails)

Capture_stop(r, c, nativeFails) ==
  IF r = "system" THEN SystemAudioCapture_stop(c, nativeFails)
  ELSE MicrophoneCapture_stop(c, nativeFails)

\* ------------------------------------------------------ GoogleSTT handles

NoStream == [exists |-> FALSE, rate |-> 0, listening |-> FALSE]

GoogleSTT_new(rate) == [exists |-> TRUE, rate |-> rate, listening |-> FALSE]

\* this.googleSTT?.setSampleRate(rate)
GoogleSTT_setSampleRate(s, rate) ==
  IF s.exists THEN [s EXCEPT !.rate = rate] ELSE s

\* this.googleSTT?.start()
GoogleSTT_start(s) == IF s.exists THEN [s EXCEPT !.listening = TRUE] ELSE s

\* this.googleSTT?.stop()
GoogleSTT_stop(s) == IF s.exists THEN [s EXCEPT !.listening = FALSE] ELSE s

\* -------------------------------------------------------------- the setup

\* setupSystemAudioPipeline with its first `made` constructors succeeding:
\* the listeners are attached only when all four did (the try block is left
\* at the first throw)
SetupCaps(made) ==
  [ system |-> IF made >= 1
               THEN << [SystemAudioCapture_new(NoDevice, "setup", 0)
                          EXCEPT !.dataL = (made = 4), !.errL = (made = 4)] >>
               ELSE << >>,
    microphone |-> IF made >= 2
               THEN << [MicrophoneCapture_new(NoDevice, "setup", 0)
                          EXCEPT !.dataL = (made = 4), !.errL = (made = 4)] >>
               ELSE << >> ]

SetupCapture(made) ==
  [ system |-> IF made >= 1 THEN 1 ELSE Null,
    microphone |-> IF made >= 2 THEN 1 ELSE Null ]

SetupStt(made, rate) ==
  [ system |-> IF made >= 3 THEN GoogleSTT_new(rate) ELSE NoStream,
    microphone |-> IF made >= 4 THEN GoogleSTT_new(rate) ELSE NoStream ]

\* the outcomes of the setup that are modelled: the SystemAudioCapture
\* constructor throws (0), the MicrophoneCapture constructor throws (1),
\* nothing throws (4)
SetupOutcomes == {0, 1, 4}

NoRc == [role |-> "system", attempt |-> "pref", input |-> NoDevice, output |-> NoDevice]

NoOutcome == [res |-> "none", ctorThrows |-> 0, want |-> NoDevice]

\* the state after the constructor of AppState, but for this.ragManager and
\* for the handle of SpecHandle
InitApp ==
  /\ rustLoaded \in BOOLEAN
  /\ \E made \in SetupOutcomes, rate \in SttInitialRates :
       \* the MicrophoneCapture constructor throws only from the Rust class
       /\ made = 1 => rustLoaded
       /\ caps = SetupCaps(made)
       /\ capture = SetupCapture(made)
       /\ stt = SetupStt(made, rate)
  /\ pc = "idle"
  /\ rc = NoRc
  /\ rcOut = [r \in Roles |-> NoOutcome]
  /\ smPc = "none"
  /\ emPc = "none"
  /\ metadata = NoMetadata
  /\ hist = << >>
  /\ startRes = [r \in Roles |-> "none"]
  /\ rejected = FALSE
  /\ chunkNo = 0
  /\ emitted = [r \in Roles |-> << >>]
  /\ written = [r \in Roles |-> << >>]
  /\ segNo = 0
  /\ transcripts = [r \in Roles |-> << >>]
  /\ intel = << >>
  /\ launcher = << >>
  /\ overlay = << >>
  /\ clock = 0
  /\ errLog = {}
  /\ session = 0
  /\ db = << >>
  /\ rag = << >>
  /\ endLog = << >>
  /\ creds = [r \in Roles |-> NoKey]

\* no MicrophoneCapture is looked at on its own
InitCore == InitApp /\ mic = Null /\ trace = << >>

\* initializeRAGManager found the database
Init == InitCore /\ ragManager = TRUE

\* initializeRAGManager may have found no database, or have thrown
InitEnd == InitCore /\ ragManager \in BOOLEAN

\* --------------------------------------------------------- reconfigureAudio

\* the reconfigureAudio runs so far
Reconfigurations == Cardinality({k \in 1..Len(hist) : hist[k] = "startAudio"})

\* a variant of AttemptDevice whose second attempt asks for the same device
AttemptDevice_SameDevice(r, attempt, input, output) ==
  IF r = "system" THEN output ELSE input

\* the device a construction attempt of role r asks for
AttemptDevice(r, attempt, input, output) ==
  IF attempt = "dflt" THEN NoDevice
  ELSE IF r = "system" THEN output ELSE input

\* a variant of StopOld that leaves the old source running
StopOld_KeepsRunning(cp, r, i, nativeFails) == cp

\* if (this.xCapture) { this.xCapture.stop(); this.xCapture = null; }
StopOld(cp, r, i, nativeFails) ==
  IF i = Null THEN cp
  ELSE [cp EXCEPT ![r][i] = Capture_stop(r, @, nativeFails)]

\* a variant of TrySteps that subscribes the 'data' listener before the rate
\* is propagated
TrySteps_DataFirst == <<"rc_data", "rc_rate", "rc_err">>

\* the statements of an attempt that follow the construction, in order:
\* read the rate and set it on the stream, on('data'), on('error')
TrySteps == <<"rc_rate", "rc_data", "rc_err">>

StepAfter(s) ==
  IF \E k \in 1..(Len(TrySteps) - 1) : TrySteps[k] = s
  THEN TrySteps[(CHOOSE k \in 1..(Len(TrySteps) - 1) : TrySteps[k] = s) + 1]
  ELSE "rc_end"

\* a variant of EndBlock in which a system block left without a wired source
\* ends reconfigureAudio
EndBlock_Aborts(r, res, out) ==
  /\ rcOut' = [out EXCEPT ![r].res = res]
  /\ IF r = "system" /\ res = "wired"
     THEN /\ pc' = "rc_stop"
          /\ rc' = [rc EXCEPT !.role = "microphone", !.attempt = "pref"]
          /\ smPc' = smPc
     ELSE /\ pc' = "idle"
          /\ rc' = NoRc
          /\ smPc' = "await"

\* the role's block is left: the microphone's block follows the system's,
\* and reconfigureAudio returns after the microphone's
EndBlock(r, res, out) ==
  /\ rcOut' = [out EXCEPT ![r].res = res]
  /\ IF r = "system"
     THEN /\ pc' = "rc_stop"
          /\ rc' = [rc EXCEPT !.role = "microphone", !.attempt = "pref"]
          /\ smPc' = smPc
     ELSE /\ pc' = "idle"
          /\ rc' = NoRc
          /\ smPc' = "await"

\* a throw inside an attempt: the preferred attempt's catch runs the default
\* attempt, the default attempt's catch logs and leaves the block
Catch(r, out, cur) ==
  IF rc.attempt = "pref"
  THEN /\ pc' = "rc_new"
       /\ rc' = [rc EXCEPT !.attempt = "dflt"]
       /\ rcOut' = out
       /\ smPc' = smPc
  ELSE EndBlock(r, IF cur = Null THEN "absent" ELSE "unwired", out)

\* a statement of the attempt is done
Advance(r) ==
  IF StepAfter(pc) = "rc_end"
  THEN EndBlock(r, "wired", rcOut)
  ELSE /\ pc' = StepAfter(pc)
       /\ UNCHANGED <<rc, rcOut, smPc>>

RcStopOld ==
  /\ pc = "rc_stop"
  /\ \E nativeFails \in BOOLEAN :
       caps' = StopOld(caps, rc.role, capture[rc.role], nativeFails)
  /\ capture' = [capture EXCEPT ![rc.role] = Null]
  /\ pc' = "rc_new"
  /\ UNCHANGED <<unitVars, creds, rustLoaded, stt, rc, rcOut, smPc, emPc, metadata, hist, startRes,
                 rejected, audioVars, routeVars, errLog, storeVars>>

RcConstruct ==
  /\ pc = "rc_new"
  /\ LET r == rc.role
         dev == AttemptDevice(r, rc.attempt, rc.input, rc.output)
     IN \/ /\ caps' = [caps EXCEPT ![r] = Append(@, Capture_new(r, dev, rc.attempt, Reconfigurations))]
           /\ capture' = [capture EXCEPT ![r] = Len(caps[r]) + 1]
           /\ pc' = TrySteps[1]
           /\ UNCHANGED <<rc, rcOut, smPc>>
        \/ \* the constructor throws: the field keeps its null
           /\ r = "microphone" => rustLoaded
           /\ UNCHANGED <<caps, capture>>
           /\ Catch(r, [rcOut EXCEPT ![r].ctorThrows = @ + 1], capture[r])
  /\ UNCHANGED <<unitVars, creds, rustLoaded, stt, emPc, metadata, hist, startRes, rejected,
                 audioVars, routeVars, errLog, storeVars>>

RcRate ==
  /\ pc = "rc_rate"
  /\ LET r == rc.role
         i == capture[r]
     IN \/ LET rate == Capture_getSampleRate(r, caps[r][i])
           IN /\ caps' = [caps EXCEPT ![r][i].reported = rate]
              /\ stt' = [stt EXCEPT ![r] = GoogleSTT_setSampleRate(@, rate)]
              /\ Advance(r)
        \/ \* the rate step throws: getSampleRate of a SystemAudioCapture, or
           \* setSampleRate of the stream
           /\ UNCHANGED <<caps, stt>>
           /\ Catch(r, rcOut, i)
  /\ UNCHANGED <<unitVars, creds, rustLoaded, capture, emPc, metadata, hist, startRes, rejected,
                 audioVars, routeVars, errLog, storeVars>>

RcOnData ==
  /\ pc = "rc_data"
  /\ caps' = [caps EXCEPT ![rc.role][capture[rc.role]].dataL = TRUE]
  /\ Advance(rc.role)
  /\ UNCHANGED <<unitVars, creds, rustLoaded, capture, stt, emPc, metadata, hist, startRes, rejected,
                 audioVars, routeVars, errLog, storeVars>>

RcOnError ==
  /\ pc = "rc_err"
  /\ caps' = [caps EXCEPT ![rc.role][capture[rc.role]].errL = TRUE]
  /\ Advance(rc.role)
  /\ UNCHANGED <<unitVars, creds, rustLoaded, capture, stt, emPc, metadata, hist, startRes, rejected,
                 audioVars, routeVars, errLog, storeVars>>

\* ------------------------------------------------------------ startMeeting

\* this.xCapture?.start()
StartRole(cp, r, nativeFails) ==
  IF capture[r] = Null
  THEN [caps |-> cp, res |-> "absent", threw |-> FALSE]
  ELSE LET o == Capture_start(r, cp[r][capture[r]], nativeFails)
       IN [caps |-> [cp EXCEPT ![r][capture[r]] = o.cap], res |-> o.res, threw |-> o.threw]

\* the four start() calls of startMeeting, in order; a throw leaves the rest out
StartPipelines(fs, fm) ==
  LET a == StartRole(caps, "system", fs)
      st1 == IF a.threw THEN stt ELSE [stt EXCEPT !["system"] = GoogleSTT_start(@)]
      b == IF a.threw THEN [caps |-> a.caps, res |-> "skipped", threw |-> TRUE]
           ELSE StartRole(a.caps, "microphone", fm)
      st2 == IF b.threw THEN st1 ELSE [st1 EXCEPT !["microphone"] = GoogleSTT_start(@)]
  IN [caps |-> b.caps, stt |-> st2,
      res |-> [system |-> a.res, microphone |-> b.res], threw |-> b.threw]

\* the 'error' listeners of the captures log what start() emitted
StartErrors(p) ==
  { r \in Roles : p.res[r] = "failed" /\ caps[r][capture[r]].errL }

DoStart(fs, fm) ==
  LET p == StartPipelines(fs, fm)
  IN /\ caps' = p.caps
     /\ stt' = p.stt
     /\ startRes' = p.res
     /\ rejected' = (rejected \/ p.threw)
     /\ errLog' = errLog \cup StartErrors(p)

\* this.intelligenceManager.setMeetingMetadata(metadata): the session's
\* metadata becomes what the call is given
SetMeetingMetadata(old, meta) == meta

\* startMeeting(metadata) without metadata.audio: no await is reached
StartMeetingPlain(meta) ==
  /\ pc = "idle" /\ smPc = "none"
  /\ ~(meta.given /\ meta.audio)
  /\ metadata' = IF meta.given THEN SetMeetingMetadata(metadata, meta) ELSE metadata
  /\ hist' = Append(hist, "start")
  /\ \E fs \in BOOLEAN, fm \in BOOLEAN : DoStart(fs, fm)
  /\ UNCHANGED <<unitVars, creds, rustLoaded, capture, pc, rc, rcOut, smPc, emPc, audioVars, routeVars, storeVars>>

\* a variant of StartMeetingAudio that starts the pipelines before it runs
\* reconfigureAudio
StartMeetingAudio_StartsFirst(meta) ==
  /\ pc = "idle" /\ smPc = "none"
  /\ meta.given /\ meta.audio
  /\ metadata' = SetMeetingMetadata(metadata, meta)
  /\ hist' = Append(hist, "startAudio")
  /\ pc' = "rc_stop"
  /\ rc' = [role |-> "system", attempt |-> "pref", input |-> meta.input,
            output |-> meta.output]
  /\ rcOut' = [r \in Roles |->
                 [res |-> "pending", ctorThrows |-> 0,
                  want |-> AttemptDevice(r, "pref", meta.input, meta.output)]]
  /\ smPc' = "reconf"
  /\ \E fs \in BOOLEAN, fm \in BOOLEAN : DoStart(fs, fm)
  /\ UNCHANGED <<unitVars, creds, rustLoaded, capture, emPc, audioVars, routeVars, storeVars>>

\* startMeeting(metadata) with metadata.audio: reconfigureAudio runs first
StartMeetingAudio(meta) ==
  /\ pc = "idle" /\ smPc = "none"
  /\ meta.given /\ meta.audio
  /\ metadata' = SetMeetingMetadata(metadata, meta)
  /\ hist' = Append(hist, "startAudio")
  /\ pc' = "rc_stop"
  /\ rc' = [role |-> "system", attempt |-> "pref", input |-> meta.input,
            output |-> meta.output]
  /\ rcOut' = [r \in Roles |->
                 [res |-> "pending", ctorThrows |-> 0,
                  want |-> AttemptDevice(r, "pref", meta.input, meta.output)]]
  /\ smPc' = "reconf"
  /\ UNCHANGED <<unitVars, creds, pipeVars, emPc, startRes, rejected, audioVars, routeVars, errLog, storeVars>>

\* after `await this.reconfigureAudio(...)`
StartMeetingResume ==
  /\ pc = "idle" /\ smPc = "await"
  /\ smPc' = "none"
  /\ \E fs \in BOOLEAN, fm \in BOOLEAN : DoStart(fs, fm)
  /\ UNCHANGED <<unitVars, creds, rustLoaded, capture, pc, rc, rcOut, emPc, metadata, hist,
                 audioVars, routeVars, storeVars>>

\* -------------------------------------------------------------- endMeeting

\* this.xCapture?.stop()
StopRole(cp, r, nativeFails) ==
  IF capture[r] = Null THEN cp
  ELSE [cp EXCEPT ![r][capture[r]] = Capture_stop(r, @, nativeFails)]

StopPipelines(nativeFails) ==
  [ caps |-> StopRole(StopRole(caps, "system", nativeFails), "microphone", nativeFails),
    stt |-> [r \in Roles |-> GoogleSTT_stop(stt[r])] ]

\* endMeeting up to `await this.intelligenceManager.stopMeeting()`
EndMeeting ==
  /\ pc = "idle" /\ emPc = "none"
  /\ \E nativeFails \in BOOLEAN :
       LET p == StopPipelines(nativeFails)
       IN caps' = p.caps /\ stt' = p.stt
  /\ emPc' = "awaitStop"
  /\ hist' = Append(hist, "end")
  /\ endLog' = <<"stopped">>
  /\ UNCHANGED <<unitVars, creds, rustLoaded, capture, pc, rc, rcOut, smPc, metadata, startRes,
                 rejected, audioVars, routeVars, errLog, ragManager, session, db, rag>>

\* intelligenceManager.stopMeeting(): the segments of the session are handed
\* to the database as a new meeting; a session without segments leaves none
StopMeeting(d, n) ==
  IF n > 0 THEN Append(d, [id |-> Len(d) + 1, segs |-> n]) ELSE d

NoMeeting == 0

\* a variant of MeetingToProcess whose check of the transcript is inverted
MeetingToProcess_EmptyOnly(rm, d) ==
  IF ~rm THEN NoMeeting
  ELSE IF Len(d) = 0 THEN NoMeeting
  ELSE IF d[Len(d)].segs # 0 THEN NoMeeting
  ELSE d[Len(d)].id

\* processCompletedMeetingForRAG up to its await: the id of the meeting it
\* gives to processMeeting, or NoMeeting when it returns before
MeetingToProcess(rm, d) ==
  IF ~rm THEN NoMeeting
  ELSE IF Len(d) = 0 THEN NoMeeting
  ELSE IF d[Len(d)].segs = 0 THEN NoMeeting
  ELSE d[Len(d)].id

\* a variant of EndMeetingFinalized that does not await processMeeting
EndMeetingFinalized_Detached ==
  /\ pc = "idle" /\ emPc = "awaitStop"
  /\ db' = StopMeeting(db, session)
  /\ session' = 0
  /\ emPc' = "none"
  /\ LET id == MeetingToProcess(ragManager, StopMeeting(db, session))
     IN IF id = NoMeeting
        THEN /\ rag' = rag
             /\ endLog' = endLog \o <<"finalized", "resolved">>
        ELSE /\ rag' = Append(rag, id)
             /\ endLog' = endLog \o <<"finalized", "processing", "resolved">>
  /\ UNCHANGED <<unitVars, creds, pipeVars, pc, rc, rcOut, smPc, metadata, hist, startRes, rejected,
                 audioVars, routeVars, errLog, ragManager>>

\* stopMeeting() has resolved; processCompletedMeetingForRAG runs up to
\* `await this.ragManager.processMeeting(...)` or returns before it
EndMeetingFinalized ==
  /\ pc = "idle" /\ emPc = "awaitStop"
  /\ db' = StopMeeting(db, session)
  /\ session' = 0
  /\ LET id == MeetingToProcess(ragManager, StopMeeting(db, session))
     IN IF id = NoMeeting
        THEN /\ emPc' = "none"
             /\ rag' = rag
             /\ endLog' = endLog \o <<"finalized", "resolved">>
        ELSE /\ emPc' = "awaitRag"
             /\ rag' = Append(rag, id)
             /\ endLog' = endLog \o <<"finalized", "processing">>
  /\ UNCHANGED <<unitVars, creds, pipeVars, pc, rc, rcOut, smPc, metadata, hist, startRes, rejected,
                 audioVars, routeVars, errLog, ragManager>>

\* stopMeeting() has resolved; getRecentMeetings or getMeetingDetails throws,
\* the catch of processCompletedMeetingForRAG logs
EndMeetingLookupFails ==
  /\ pc = "idle" /\ emPc = "awaitStop"
  /\ ragManager
  /\ db' = StopMeeting(db, session)
  /\ session' = 0
  /\ emPc' = "none"
  /\ endLog' = endLog \o <<"finalized", "lookupFailed", "resolved">>
  /\ UNCHANGED <<unitVars, creds, pipeVars, pc, rc, rcOut, smPc, metadata, hist, startRes, rejected,
                 audioVars, routeVars, errLog, ragManager, rag>>

\* stopMeeting() has rejected: the await in endMeeting is in no try block
EndMeetingStopRejected ==
  /\ pc = "idle" /\ emPc = "awaitStop"
  /\ emPc' = "none"
  /\ rejected' = TRUE
  /\ endLog' = endLog \o <<"rejected">>
  /\ UNCHANGED <<unitVars, creds, pipeVars, pc, rc, rcOut, smPc, metadata, hist, startRes,
                 audioVars, routeVars, errLog, ragManager, session, db, rag>>

\* processMeeting() has resolved
EndMeetingProcessed ==
  /\ pc = "idle" /\ emPc = "awaitRag"
  /\ emPc' = "none"
  /\ endLog' = endLog \o <<"processed", "resolved">>
  /\ UNCHANGED <<unitVars, creds, pipeVars, pc, rc, rcOut, smPc, metadata, hist, startRes, rejected,
                 audioVars, routeVars, errLog, ragManager, session, db, rag>>

\* a variant of EndMeetingProcessFailed without the catch
EndMeetingProcessFailed_Uncaught ==
  /\ pc = "idle" /\ emPc = "awaitRag"
  /\ emPc' = "none"
  /\ rejected' = TRUE
  /\ endLog' = endLog \o <<"processFailed", "rejected">>
  /\ UNCHANGED <<unitVars, creds, pipeVars, pc, rc, rcOut, smPc, metadata, hist, startRes,
                 audioVars, routeVars, errLog, ragManager, session, db, rag>>

\* processMeeting() has rejected: the catch of processCompletedMeetingForRAG
\* logs
EndMeetingProcessFailed ==
  /\ pc = "idle" /\ emPc = "awaitRag"
  /\ emPc' = "none"
  /\ endLog' = endLog \o <<"processFailed", "resolved">>
  /\ UNCHANGED <<unitVars, creds, pipeVars, pc, rc, rcOut, smPc, metadata, hist, startRes, rejected,
                 audioVars, routeVars, errLog, ragManager, session, db, rag>>

\* ------------------------------------------------------------------ events

\* an event callback runs when no code runs and no continuation is queued
\* behind an already resolved promise
EventLoopFree == pc = "idle" /\ smPc # "await"

\* the native callback of MicrophoneCapture.start:
\* if (chunk && chunk.length > 0) this.emit('data', chunk)
EmitsData(r, len) == len > 0

\* the 'data' listener: this.googleSTT?.write(chunk)
OnData(wr, r, i, id) ==
  IF caps[r][i].dataL /\ stt[r].exists
  THEN [wr EXCEPT ![r] = Append(@, [id |-> id, src |-> i, current |-> (capture[r] = i),
                                    sttRate |-> stt[r].rate,
                                    srcRate |-> Capture_getSampleRate(r, caps[r][i])])]
  ELSE wr

NativeChunk(r, i, len) ==
  /\ EventLoopFree
  /\ i \in 1..Len(caps[r])
  /\ caps[r][i].native
  /\ r = "system" => len > 0
  /\ chunkNo' = chunkNo + 1
  /\ IF EmitsData(r, len)
     THEN /\ emitted' = [emitted EXCEPT ![r] = Append(@, [id |-> chunkNo + 1, src |-> i])]
          /\ written' = OnData(written, r, i, chunkNo + 1)
     ELSE UNCHANGED <<emitted, written>>
  /\ UNCHANGED <<unitVars, creds, pipeVars, callVars, routeVars, errLog, storeVars>>

\* the segment the 'transcript' listener of googleSTT builds at time ts; id
\* tells the transcript events apart
InterviewerSegment(seg, id, ts) ==
  [ speaker |-> "interviewer", text |-> seg.text, timestamp |-> ts,
    final |-> seg.isFinal, confidence |-> seg.confidence, id |-> id ]

\* a variant of UserSegment with the other listener's speaker
UserSegment_AsInterviewer(seg, id, ts) ==
  [ speaker |-> "interviewer", text |-> seg.text, timestamp |-> ts,
    final |-> seg.isFinal, confidence |-> seg.confidence, id |-> id ]

\* the segment the 'transcript' listener of googleSTT_User builds
UserSegment(seg, id, ts) ==
  [ speaker |-> "user", text |-> seg.text, timestamp |-> ts,
    final |-> seg.isFinal, confidence |-> seg.confidence, id |-> id ]

RoutedSegment(r, seg, id, ts) ==
  IF r = "system" THEN InterviewerSegment(seg, id, ts) ELSE UserSegment(seg, id, ts)

\* a variant of SendTo that sends whether or not the window is there
SendTo_Always(log, present, payload) == Append(log, payload)

\* helper.getXWindow()?.webContents.send(...): an absent window is skipped
SendTo(log, present, payload) == IF present THEN Append(log, payload) ELSE log

\* a variant of Transcript whose listener forwards only while the role's
\* stream is started
Transcript_ChecksState(r, seg, hasLauncher, hasOverlay, dt) ==
  /\ EventLoopFree
  /\ stt[r].exists
  /\ segNo' = segNo + 1
  /\ transcripts' = [transcripts EXCEPT ![r] =
         Append(@, [id |-> segNo + 1, seg |-> seg,
                    launcher |-> hasLauncher, overlay |-> hasOverlay,
                    afterError |-> Other(r) \in errLog])]
  /\ clock' = clock + dt
  /\ IF stt[r].listening
     THEN /\ intel' = Append(intel, RoutedSegment(r, seg, segNo + 1, clock))
          /\ launcher' = SendTo(launcher, hasLauncher, RoutedSegment(r, seg, segNo + 1, clock + dt))
          /\ overlay' = SendTo(overlay, hasOverlay, RoutedSegment(r, seg, segNo + 1, clock + dt))
          /\ session' = session + 1
     ELSE UNCHANGED <<intel, launcher, overlay, session>>
  /\ UNCHANGED <<unitVars, creds, pipeVars, callVars, audioVars, errLog, ragManager, db, rag, endLog>>

\* a 'transcript' event of role r's stream, with the launcher / overlay
\* window present or not: handleTranscript is given a segment stamped with
\* Date.now(), and the windows a payload stamped with a second Date.now(),
\* dt milliseconds later
Transcript(r, seg, hasLauncher, hasOverlay, dt) ==
  /\ EventLoopFree
  /\ stt[r].exists
  /\ segNo' = segNo + 1
  /\ transcripts' = [transcripts EXCEPT ![r] =
         Append(@, [id |-> segNo + 1, seg |-> seg,
                    launcher |-> hasLauncher, overlay |-> hasOverlay,
                    afterError |-> Other(r) \in errLog])]
  /\ intel' = Append(intel, RoutedSegment(r, seg, segNo + 1, clock))
  /\ launcher' = SendTo(launcher, hasLauncher, RoutedSegment(r, seg, segNo + 1, clock + dt))
  /\ overlay' = SendTo(overlay, hasOverlay, RoutedSegment(r, seg, segNo + 1, clock + dt))
  /\ clock' = clock + dt
  /\ session' = session + 1
  /\ UNCHANGED <<unitVars, creds, pipeVars, callVars, audioVars, errLog, ragManager, db, rag, endLog>>

\* a variant of StreamError whose listener stops the other role's stream
StreamError_StopsOther(r) ==
  /\ EventLoopFree
  /\ stt[r].exists
  /\ errLog' = errLog \cup {r}
  /\ stt' = [stt EXCEPT ![Other(r)] = GoogleSTT_stop(@)]
  /\ UNCHANGED <<unitVars, creds, rustLoaded, caps, capture, callVars, audioVars, routeVars, storeVars>>

\* an 'error' event of role r's stream: its listener logs
StreamError(r) ==
  /\ EventLoopFree
  /\ stt[r].exists
  /\ errLog' = errLog \cup {r}
  /\ UNCHANGED <<unitVars, creds, pipeVars, callVars, audioVars, routeVars, storeVars>>

\* an 'error' event of a running system capture: its listener logs
CaptureError(r, i) ==
  /\ EventLoopFree
  /\ r = "system"
  /\ i \in 1..Len(caps[r])
  /\ caps[r][i].native /\ caps[r][i].errL
  /\ errLog' = errLog \cup {r}
  /\ UNCHANGED <<unitVars, creds, pipeVars, callVars, audioVars, routeVars, storeVars>>

\* --------------------------------------------------------- credentials

\* stream.setCredentials(keyPath)
GoogleSTT_setCredentials(old, keyPath) == keyPath

\* updateGoogleCredentials(keyPath): this.googleSTT is given the path, or a
\* warning is logged when there is no this.googleSTT
UpdateGoogleCredentials(keyPath) ==
  /\ pc = "idle"
  /\ creds' = IF stt["system"].exists
              THEN [creds EXCEPT !["system"] = GoogleSTT_setCredentials(@, keyPath)]
              ELSE creds
  /\ UNCHANGED <<pipeVars, callVars, audioVars, routeVars, errLog, storeVars, unitVars>>

\* -------------------------------------- a MicrophoneCapture on its own

\* the device ids a MicrophoneCapture may be constructed with
MicDevices == {NoDevice, "mic-2"}

\* a MicrophoneCapture right after its constructor, with the owner's 'error'
\* listener attached or not
InitHandle ==
  /\ InitApp
  /\ ragManager = TRUE
  /\ \E dev \in MicDevices, listens \in BOOLEAN :
       mic = [MicrophoneCapture_new(dev, "setup", 0) EXCEPT !.errL = listens]
  /\ trace = << >>

\* mic.start()
HandleStart(nativeFails) ==
  /\ LET o == MicrophoneCapture_start(mic, nativeFails)
     IN /\ mic' = o.cap
        /\ trace' = Append(trace, [op |-> "start", did |-> MicrophoneCapture_startDid(o.res),
                                   threw |-> o.threw, ret |-> 0])
  /\ UNCHANGED <<pipeVars, callVars, audioVars, routeVars, errLog, storeVars, creds>>

\* mic.stop()
HandleStop(nativeFails) ==
  /\ mic' = MicrophoneCapture_stop(mic, nativeFails)
  /\ trace' = Append(trace, [op |-> "stop", did |-> MicrophoneCapture_stopDid(mic),
                             threw |-> FALSE, ret |-> 0])
  /\ UNCHANGED <<pipeVars, callVars, audioVars, routeVars, errLog, storeVars, creds>>

\* mic.getSampleRate()
HandleGetSampleRate ==
  /\ mic' = mic
  /\ trace' = Append(trace, [op |-> "getSampleRate", did |-> << >>, threw |-> FALSE,
                             ret |-> MicrophoneCapture_getSampleRate(mic)])
  /\ UNCHANGED <<pipeVars, callVars, audioVars, routeVars, errLog, storeVars, creds>>

\* ------------------------------------------------------- specifications

Reconfigure == RcStopOld \/ RcConstruct \/ RcRate \/ RcOnData \/ RcOnError

\* the calls of the lifecycle methods
Calls ==
  \/ \E meta \in Metadatas : StartMeetingPlain(meta)
  \/ /\ Reconfigurations < MaxReconf
     /\ \E meta \in Metadatas : StartMeetingAudio(meta)
  \/ EndMeeting

\* what follows their awaits
Continuations ==
  \/ StartMeetingResume
  \/ EndMeetingFinalized

Chunks == \E r \in Roles, i \in 1..MaxCaps, len \in {0, 1} : NativeChunk(r, i, len)

\* the meeting lifecycle with device reconfiguration and the audio path
Next ==
  \/ Len(hist) < MaxOps /\ Calls
  \/ Continuations
  \/ Reconfigure
  \/ chunkNo < MaxChunks /\ Chunks

Spec == Init /\ [][Next]_vars

\* the routing of transcripts and errors, under a shorter lifecycle
NextRouter ==
  \/ Len(hist) < RouterOps /\ Calls
  \/ Continuations
  \/ Reconfigure
  \/ segNo < RouterSegs /\ \E r \in Roles : Transcript(r, RouterSegment, TRUE, TRUE, 0)
  \/ \E r \in Roles : StreamError(r)
  \/ \E r \in Roles, i \in 1..MaxCaps : CaptureError(r, i)
  \/ EndMeetingProcessed

SpecRouter == Init /\ [][NextRouter]_vars

\* the end of a meeting: finalization and post-session processing with
\* their failures, under meetings started without device preferences
NextEnd ==
  \/ /\ Len(hist) < EndOps
     /\ \/ \E meta \in Metadatas : StartMeetingPlain(meta)
        \/ EndMeeting
  \/ EndMeetingFinalized
  \/ EndMeetingLookupFails
  \/ EndMeetingStopRejected
  \/ EndMeetingProcessed
  \/ EndMeetingProcessFailed
  \/ segNo < EndSegs /\ \E r \in Roles : Transcript(r, RouterSegment, TRUE, TRUE, 0)

SpecEnd == InitEnd /\ [][NextEnd]_vars

\* the router alone: transcript events of either role, with any payload,
\* with each window present or absent, and with the clock advancing or not
\* while the listener runs
NextSinks ==
  /\ segNo < SinkSegs
  /\ \E r \in Roles, seg \in Segments, l \in BOOLEAN, o \in BOOLEAN, dt \in Elapsed :
       Transcript(r, seg, l, o, dt)

SpecSinks == Init /\ [][NextSinks]_vars

\* one meeting from end to end: a startMeeting with device preferences, the
\* transcripts the started streams emit, and the endMeeting with its
\* post-session processing
NextSession ==
  \/ /\ Len(hist) < SessionOps
     /\ Reconfigurations < MaxReconf
     /\ \E meta \in Metadatas : StartMeetingAudio(meta)
  \/ Len(hist) < SessionOps /\ EndMeeting
  \/ Reconfigure
  \/ StartMeetingResume
  \/ /\ segNo < SessionSegs
     /\ \E r \in Roles, seg \in Segments :
          stt[r].listening /\ Transcript(r, seg, TRUE, TRUE, 0)
  \/ EndMeetingFinalized
  \/ EndMeetingProcessed

SpecSession == Init /\ [][NextSession]_vars

\* credentials updates at any moment of a short meeting lifecycle
NextCreds ==
  \/ /\ Len(hist) < CredOps
     /\ \/ \E meta \in Metadatas : StartMeetingPlain(meta)
        \/ EndMeeting
  \/ EndMeetingFinalized
  \/ \E keyPath \in KeyPaths : UpdateGoogleCredentials(keyPath)

SpecCreds == Init /\ [][NextCreds]_vars

\* the methods of one MicrophoneCapture, called in any order
NextHandle ==
  \/ Len(trace) < MaxCalls /\ \E nativeFails \in BOOLEAN : HandleStart(nativeFails)
  \/ Len(trace) < MaxCalls /\ \E nativeFails \in BOOLEAN : HandleStop(nativeFails)
  \/ Len(trace) < MaxCalls /\ HandleGetSampleRate

SpecHandle == InitHandle /\ [][NextHandle]_vars

\* ------------------------------------------------------------- properties

\* the reconfigureAudio run of role r has left the role's block
BlockDone(r) == rcOut[r].res \in {"wired", "unwired", "absent"}

\* role r's current source, made by reconfigureAudio
Reconfigured(r) ==
  /\ capture[r] # Null
  /\ caps[r][capture[r]].origin # "setup"

\* C1: whenever a chunk is forwarded to a role's stream, the stream's sample
\* rate equals the rate reported by the source the chunk came from, the
\* sources made by setupSystemAudioPipeline included.
C1_ForwardedRateMatches ==
  \A r \in Roles : \A k \in 1..Len(written[r]) :
    written[r][k].sttRate = written[r][k].srcRate

\* C2: in reconfigureAudio the rate X that the new source reports is set on
\* the role's stream before the source's 'data' listener is subscribed: a
\* current source of reconfigureAudio that has its 'data' listener has
\* reported a rate and the stream has it, and every chunk forwarded from such
\* a source met the stream at that rate.
C2_RateBeforeData ==
  \A r \in Roles :
    /\ (Reconfigured(r) /\ caps[r][capture[r]].dataL) =>
         /\ caps[r][capture[r]].reported # 0
         /\ stt[r].exists => stt[r].rate = caps[r][capture[r]].reported
    /\ \A k \in 1..Len(written[r]) :
         (written[r][k].current /\ caps[r][written[r][k].src].origin # "setup") =>
           written[r][k].sttRate = caps[r][written[r][k].src].reported

\* a chunk of a reconfigured microphone reached the stream, which had been
\* moved from its initial rate to the device's
C2_Witness ==
  \E k \in 1..Len(written["microphone"]) :
    LET w == written["microphone"][k]
    IN /\ w.current
       /\ caps["microphone"][w.src].origin = "pref"
       /\ w.sttRate = 44100

\* a construction of role r's source throws in this step
CtorThrows(r) == rcOut'[r].ctorThrows = rcOut[r].ctorThrows + 1

\* C3: when the construction with the requested device id throws, the
\* construction is attempted again with no device id (every second attempt
\* asks for the default device); when both constructions throw, the role's
\* field is null when its block is left; and a throwing construction changes
\* nothing of the other role's sources, field or stream.
C3_Fallback ==
  /\ [](\A r \in Roles : \A i \in 1..Len(caps[r]) :
          caps[r][i].origin = "dflt" => caps[r][i].dev = NoDevice)
  /\ [](\A r \in Roles :
          rcOut[r].ctorThrows = 2 => (rcOut[r].res = "absent" /\ capture[r] = Null))
  /\ [][\A r \in Roles :
          (pc = "rc_new" /\ rc.role = r /\ CtorThrows(r)) =>
            /\ rc.attempt = "pref" =>
                 (pc' = "rc_new" /\ rc'.role = r /\ rc'.attempt = "dflt")
            /\ caps'[Other(r)] = caps[Other(r)]
            /\ capture'[Other(r)] = capture[Other(r)]
            /\ stt'[Other(r)] = stt[Other(r)]]_vars

\* both constructions of the system source threw, and the microphone's block
\* then wired a source; reconfigureAudio has returned
C3_Witness ==
  /\ rcOut["system"].ctorThrows = 2
  /\ capture["system"] = Null
  /\ rcOut["system"].want = "spk-2"
  /\ rcOut["microphone"].res = "wired"
  /\ Reconfigured("microphone")
  /\ smPc = "await"

\* C4: failures in the system block never abort the microphone block: when
\* reconfigureAudio has returned, both blocks have been left, the microphone
\* block runs once the system block is left, a running reconfigureAudio can
\* always take its next step, and no step of it rejects startMeeting.
C4_MicBlockRuns ==
  /\ [](smPc = "await" => \A r \in Roles : BlockDone(r))
  /\ []((smPc = "reconf" /\ BlockDone("system")) =>
          (BlockDone("microphone") \/ rc.role = "microphone"))
  /\ [](pc # "idle" => ENABLED Reconfigure)
  /\ [][pc # "idle" => rejected' = rejected]_vars

\* the system block failed twice over (the preferred source threw at the rate,
\* the default construction threw), and the microphone block has wired its
\* source
C4_Witness ==
  /\ smPc = "await"
  /\ rcOut["system"].res = "unwired"
  /\ rcOut["microphone"].res = "wired"
  /\ caps["microphone"][capture["microphone"]].dataL
  /\ ~rejected

\* C5 as the specification states it: a preference for one role only leaves
\* the other role's capture instance and capturing state as they were.
C5_OtherRoleUntouched ==
  [][\A r \in Roles :
       (pc # "idle" /\ rc.role = r /\ rcOut[r].want = NoDevice
          /\ rcOut[Other(r)].want # NoDevice) =>
         (capture'[r] = capture[r] /\ caps'[r] = caps[r])]_vars

\* C5, amended: reconfigureAudio replaces the capture source of both roles
\* whichever preferences are given: once a role's block is left, the role's
\* field is null or a source this run made, every older source of the role
\* has been stopped, the first attempt asked for the role's requested device
\* and a role without a preference got a source of the default device.
C5_BothRolesReplaced ==
  \A r \in Roles :
    BlockDone(r) =>
      /\ capture[r] = Null \/ caps[r][capture[r]].gen = Reconfigurations
      /\ \A i \in 1..Len(caps[r]) :
           /\ caps[r][i].gen < Reconfigurations => ~caps[r][i].isRecording
           /\ (caps[r][i].gen = Reconfigurations /\ caps[r][i].origin = "pref") =>
                caps[r][i].dev = rcOut[r].want
           /\ (caps[r][i].gen = Reconfigurations /\ rcOut[r].want = NoDevice) =>
                caps[r][i].dev = NoDevice

\* a meeting was running on the setup's sources, the call named a microphone
\* only, and the system source was replaced by a new default-device source
C5_Witness ==
  /\ hist = <<"start", "startAudio">>
  /\ startRes["system"] = "started"
  /\ smPc = "await"
  /\ rcOut["microphone"].want = "mic-2"
  /\ rcOut["system"].want = NoDevice
  /\ capture["system"] = 2
  /\ caps["system"][2].dev = NoDevice
  /\ ~caps["system"][1].isRecording

\* the speaker the specification gives a role's transcripts
SpeakerOf(r) == IF r = "system" THEN "interviewer" ELSE "user"

\* the entries of a sink for the transcript event id
Deliveries(log, id) == {j \in 1..Len(log) : log[j].id = id}

\* C6: every transcript event of the system role's stream is routed to the
\* intelligence consumer and to both UI surfaces with speaker "interviewer",
\* every one of the microphone role's stream with speaker "user", after any
\* sequence of startMeeting, endMeeting and reconfigureAudio.
C6_Attribution ==
  \A r \in Roles : \A k \in 1..Len(transcripts[r]) :
    LET id == transcripts[r][k].id
    IN /\ Deliveries(intel, id) # {}
       /\ Deliveries(launcher, id) # {}
       /\ Deliveries(overlay, id) # {}
       /\ \A j \in Deliveries(intel, id) : intel[j].speaker = SpeakerOf(r)
       /\ \A j \in Deliveries(launcher, id) : launcher[j].speaker = SpeakerOf(r)
       /\ \A j \in Deliveries(overlay, id) : overlay[j].speaker = SpeakerOf(r)

\* after a meeting was started with device preferences and ended, both
\* streams have emitted a transcript, the microphone's first
C6_Witness ==
  /\ hist = <<"startAudio", "end">>
  /\ Len(transcripts["system"]) = 1
  /\ Len(transcripts["microphone"]) = 1
  /\ transcripts["microphone"][1].id = 1
  /\ intel[1].speaker = "user"
  /\ overlay[2].speaker = "interviewer"

\* C7: per role, the chunks the capture sources emit are written to the
\* role's stream in emission order, none lost and none twice, and the
\* transcript events of a stream reach every sink in emission order, none
\* lost and none twice.
C7_Fifo ==
  \A r \in Roles :
    /\ stt[r].exists =>
         /\ Len(written[r]) = Len(emitted[r])
         /\ \A k \in 1..Len(written[r]) : written[r][k].id = emitted[r][k].id
    /\ \A k \in 1..Len(transcripts[r]) :
         /\ Cardinality(Deliveries(intel, transcripts[r][k].id)) = 1
         /\ \A m \in 1..(k - 1) :
              \A j \in Deliveries(intel, transcripts[r][k].id),
                 h \in Deliveries(intel, transcripts[r][m].id) : h < j

\* an asynchronous 'error' event: only the log of errors changes
ErrorEvent == errLog' # errLog /\ callVars' = callVars

Capturing(r) == {i \in 1..Len(caps[r]) : caps[r][i].isRecording}

\* C9: at most one capture source per role is capturing, after any sequence
\* of startMeeting, endMeeting and reconfigureAudio, startMeeting during an
\* active session included.
C9_OneCapturing ==
  \A r \in Roles : Cardinality(Capturing(r)) <= 1

\* startMeeting with device preferences was called during an active session:
\* the sources of the first call were capturing, and now the new ones are
C9_Witness ==
  /\ hist = <<"start", "startAudio">>
  /\ smPc = "none"
  /\ \A r \in Roles :
       /\ startRes[r] = "started"
       /\ Capturing(r) = {2}
       /\ caps[r][1].origin = "setup"

\* C10: after startMeeting, endMeeting and a startMeeting without device
\* preferences, on a pipeline that the setup built in full and with no
\* failure of a native start, both roles' sources are capturing again.
C10_Restart ==
  ( /\ hist = <<"start", "end", "start">>
    /\ rustLoaded
    /\ \A r \in Roles : capture[r] # Null /\ stt[r].exists
    /\ \A r \in Roles : startRes[r] # "failed" ) =>
  \A r \in Roles :
    /\ caps[r][capture[r]].isRecording
    /\ caps[r][capture[r]].native

\* C11: processMeeting is given the meeting of an ended session only when
\* the session's finalized transcript is not empty, and no meeting id is
\* given to it more than once over any sequence of startMeeting and
\* endMeeting calls.
C11_ProcessedOnce ==
  /\ \A i, j \in 1..Len(rag) : rag[i] = rag[j] => i = j
  /\ \A i \in 1..Len(rag) :
       \E k \in 1..Len(db) : db[k].id = rag[i] /\ db[k].segs > 0

\* the last endMeeting was called with no startMeeting before it, or right
\* after another endMeeting
RedundantEnd ==
  /\ hist # << >>
  /\ hist[Len(hist)] = "end"
  /\ Len(hist) = 1 \/ hist[Len(hist) - 1] = "end"

\* C12: an endMeeting with no startMeeting before it, or right after another
\* endMeeting, has no teardown effect a second time: its stop calls change
\* no capture source and no stream (no 'stop' event), and it gives
\* processMeeting no meeting that was processed already.
C12_EndIdempotent ==
  [][/\ (hist' # hist /\ RedundantEnd') => pipeVars' = pipeVars
     /\ (RedundantEnd /\ rag' # rag) =>
          \A i \in 1..Len(rag) : rag[i] # rag'[Len(rag')]]_vars

\* the orders in which the steps of an endMeeting may be logged
EndOrders ==
  { <<"stopped", "finalized", "processing", "processed", "resolved">>,
    <<"stopped", "finalized", "processing", "processFailed", "resolved">>,
    <<"stopped", "finalized", "lookupFailed", "resolved">>,
    <<"stopped", "finalized", "resolved">>,
    <<"stopped", "rejected">> }

IsPrefix(p, q) == Len(p) <= Len(q) /\ \A k \in 1..Len(p) : p[k] = q[k]

\* role r's field holds no capturing source and the role's stream is idle
Stopped(r) ==
  /\ capture[r] # Null => ~caps[r][capture[r]].isRecording
  /\ ~stt[r].listening

\* C13: in endMeeting both capture sources and both streams are stopped
\* first, then the session is finalized (the only step that hands the
\* session to the database), then post-session processing runs, and the
\* promise of endMeeting settles only after processMeeting has settled.
C13_EndOrder ==
  /\ [](\E o \in EndOrders : IsPrefix(endLog, o))
  /\ [](emPc = "awaitStop" => endLog = <<"stopped">>)
  /\ [](emPc = "awaitRag" => endLog = <<"stopped", "finalized", "processing">>)
  /\ []((emPc = "none" /\ endLog # << >>) =>
          endLog[Len(endLog)] \in {"resolved", "rejected"})
  /\ [][(endLog' # endLog /\ Len(endLog') = 1) =>
          (\A r \in Roles : Stopped(r)')]_vars
  /\ [][(db' # db \/ rag' # rag) =>
          (endLog = <<"stopped">> /\ endLog'[2] = "finalized")]_vars
  /\ [][rag' # rag => endLog'[3] = "processing"]_vars

\* a meeting with a transcript was started and ended: its captures were
\* stopped, it was stored, processed, and endMeeting resolved
C13_Witness ==
  /\ hist = <<"start", "end">>
  /\ startRes["system"] = "started"
  /\ db = <<[id |-> 1, segs |-> 1]>>
  /\ rag = <<1>>
  /\ endLog = <<"stopped", "finalized", "processing", "processed", "resolved">>

\* start() takes effect on a capture source or on a stream in this step
StartsHandle ==
  \/ \E r \in Roles : stt'[r].listening /\ ~stt[r].listening
  \/ \E r \in Roles : \E i \in 1..Len(caps[r]) :
       caps'[r][i].isRecording /\ ~caps[r][i].isRecording

\* C14: with device preferences in the metadata, the reconfiguration of
\* both roles, the system role's first, is over before start() is called on
\* any capture source or stream: no handle is started by a step taken
\* inside reconfigureAudio or by the step that begins it, and the start
\* calls that follow a reconfiguration find both roles' blocks left.
C14_ReconfigureBeforeStart ==
  /\ [][StartsHandle =>
          /\ pc = "idle" /\ pc' = "idle"
          /\ smPc \in {"none", "await"} /\ smPc' = "none"
          /\ smPc = "await" => \A r \in Roles : BlockDone(r)]_vars
  /\ [](smPc = "reconf" => (BlockDone("microphone") => BlockDone("system")))
  /\ []((smPc = "reconf" /\ rc.role = "system") => ~BlockDone("system"))

\* startMeeting with device preferences reconfigured both roles and then
\* started both new sources and both streams
C14_Witness ==
  /\ hist = <<"startAudio">>
  /\ smPc = "none"
  /\ \A r \in Roles :
       /\ rcOut[r].res = "wired"
       /\ startRes[r] = "started"
       /\ caps[r][capture[r]].gen = 1
       /\ stt[r].listening

\* the start() calls of a startMeeting are made in this step
StartCalls ==
  \/ hist' # hist /\ hist'[Len(hist')] = "start"
  \/ smPc = "await" /\ smPc' = "none"

\* C15: in startMeeting a role whose source is absent, uninitialised or
\* fails to start does not keep start() from being called on the other
\* role's source and stream (no call is skipped, every stream is started),
\* and the promise of startMeeting is not rejected.
C15_BestEffortStart ==
  [][StartCalls =>
       /\ rejected' = rejected
       /\ \A r \in Roles :
            /\ startRes'[r] # "skipped"
            /\ stt[r].exists => stt'[r].listening]_vars

\* post-session processing fails in this step
ProcessingFails ==
  /\ endLog' # endLog
  /\ \E k \in (Len(endLog) + 1)..Len(endLog') :
       endLog'[k] \in {"lookupFailed", "processFailed"}

\* C16: when post-session processing fails (the database lookup throws, or
\* processMeeting rejects), endMeeting still resolves and rejects nothing,
\* and the finalization is not undone: no stored meeting is removed or
\* changed, and the meeting whose processing failed is still stored.
C16_ProcessingFailureIsolated ==
  /\ [][ProcessingFails =>
          /\ endLog'[Len(endLog')] = "resolved"
          /\ emPc' = "none"
          /\ rejected' = rejected
          /\ IsPrefix(db, db')]_vars
  /\ [](\A k \in 1..Len(endLog) :
          endLog[k] = "processFailed" =>
            \E m \in 1..Len(db) : db[m].id = rag[Len(rag)] /\ db[m].segs > 0)

\* a meeting with a transcript was stored, processMeeting rejected, and
\* endMeeting resolved with the meeting still stored
C16_Witness ==
  /\ endLog = <<"stopped", "finalized", "processing", "processFailed", "resolved">>
  /\ db = <<[id |-> 1, segs |-> 2]>>
  /\ rag = <<1>>
  /\ ~rejected

\* C17: neither startMeeting nor endMeeting ever rejects its promise,
\* whichever step fails: a construction, a start, a stop, the session
\* finalization or the post-session processing.
C17_NeverRejects ==
  /\ ~rejected
  /\ endLog # << >> => endLog[Len(endLog)] # "rejected"

\* C18: no chunk emitted by a capture source that reconfigureAudio has
\* replaced is forwarded to the role's stream: every write comes from the
\* source the role's field holds at that moment.
C18_NoStaleForwarding ==
  \A r \in Roles : \A k \in 1..Len(written[r]) : written[r][k].current

\* role r's stream emits a transcript event in this step
TranscriptFrom(r) ==
  /\ segNo' = segNo + 1
  /\ Len(transcripts'[r]) = Len(transcripts[r]) + 1

\* the last entry of a sink is the event segNo' with role r's speaker
DeliveredLast(log, r) ==
  /\ log # << >>
  /\ log[Len(log)].id = segNo'
  /\ log[Len(log)].speaker = SpeakerOf(r)

\* C19: the delivery of a transcript event does not depend on the state of
\* the pipelines: whether or not the role's stream and source are started,
\* the event is appended once to the intelligence consumer and to the
\* windows with the role's speaker, and the step changes no capture source,
\* no stream and no state of the lifecycle calls.
C19_StateIndependentRouting ==
  [][\A r \in Roles :
       TranscriptFrom(r) =>
         /\ pipeVars' = pipeVars
         /\ callVars' = callVars
         /\ Len(intel') = Len(intel) + 1 /\ DeliveredLast(intel', r)
         /\ Len(launcher') = Len(launcher) + 1 /\ DeliveredLast(launcher', r)
         /\ Len(overlay') = Len(overlay) + 1 /\ DeliveredLast(overlay', r)]_vars

\* a transcript arrived before the meeting's end was finalized and another
\* one after it, when endMeeting had stopped both streams: both were
\* delivered
C19_Witness ==
  /\ hist = <<"start", "end">>
  /\ \A r \in Roles : startRes[r] = "started" /\ ~stt[r].listening
  /\ db = <<[id |-> 1, segs |-> 1]>>
  /\ session = 1
  /\ Len(intel) = 2 /\ Len(overlay) = 2
  /\ emPc = "none"

\* the entries of a sink that carry the event e of role r as it was emitted
Faithful(log, r, e) ==
  { j \in Deliveries(log, e.id) :
      /\ log[j].speaker = SpeakerOf(r)
      /\ log[j].text = e.seg.text
      /\ log[j].final = e.seg.isFinal
      /\ log[j].confidence = e.seg.confidence }

\* the transcript events emitted so far
EventIds == UNION { {transcripts[r][k].id : k \in 1..Len(transcripts[r])} : r \in Roles }

\* C20: each transcript event is delivered exactly once to the intelligence
\* consumer and exactly once to each window that is present at that moment;
\* an absent window receives nothing, with no window present the
\* intelligence consumer still receives the segment, no sink holds anything
\* that was not emitted, and no error is logged or raised.
C20_ExactlyOnce ==
  /\ \A r \in Roles : \A k \in 1..Len(transcripts[r]) :
       LET e == transcripts[r][k]
       IN /\ Cardinality(Deliveries(intel, e.id)) = 1
          /\ Faithful(intel, r, e) = Deliveries(intel, e.id)
          /\ Cardinality(Deliveries(launcher, e.id)) = (IF e.launcher THEN 1 ELSE 0)
          /\ Faithful(launcher, r, e) = Deliveries(launcher, e.id)
          /\ Cardinality(Deliveries(overlay, e.id)) = (IF e.overlay THEN 1 ELSE 0)
          /\ Faithful(overlay, r, e) = Deliveries(overlay, e.id)
  /\ \A j \in 1..Len(intel) : intel[j].id \in EventIds
  /\ \A j \in 1..Len(launcher) : launcher[j].id \in EventIds
  /\ \A j \in 1..Len(overlay) : overlay[j].id \in EventIds
  /\ errLog = {} /\ ~rejected

\* one event met no window, one met the overlay only and one met both
C20_Witness ==
  /\ segNo = 3
  /\ \E r \in Roles : \E k \in 1..Len(transcripts[r]) :
       ~transcripts[r][k].launcher /\ ~transcripts[r][k].overlay
  /\ \E r \in Roles : \E k \in 1..Len(transcripts[r]) :
       ~transcripts[r][k].launcher /\ transcripts[r][k].overlay
  /\ Len(intel) = 3
  /\ Len(launcher) = 1
  /\ Len(overlay) = 2

\* the payloads the sinks hold for the transcript event id
Payloads(id) ==
  {intel[j] : j \in Deliveries(intel, id)}
    \cup {launcher[j] : j \in Deliveries(launcher, id)}
    \cup {overlay[j] : j \in Deliveries(overlay, id)}

\* C21: for one transcript event a single segment reaches all sinks: what
\* the intelligence consumer was given and what the windows were sent have
\* the same speaker, text, timestamp, final and confidence.
C21_SameSegment ==
  \A id \in EventIds : Cardinality(Payloads(id)) = 1

\* the method op is called on the handle in this step
Called(op) == Len(trace') = Len(trace) + 1 /\ trace'[Len(trace')].op = op

\* the native starts that succeeded since the handle's last stop that found
\* it recording: each of them registered a chunk callback
LiveCallbacks ==
  LET stops == {k \in 1..Len(trace) : trace[k].op = "stop" /\ trace[k].did # << >>}
      from == IF stops = {} THEN 0 ELSE CHOOSE k \in stops : \A m \in stops : m <= k
  IN {k \in (from + 1)..Len(trace) :
        trace[k].op = "start" /\ trace[k].did = <<"native.start", "emit.start">>}

\* C22: start() on a MicrophoneCapture that is recording is a no-op: the
\* handle is unchanged, the native start is not called again, no 'start'
\* (and no other) event is emitted and nothing is thrown; so a recording
\* handle has exactly one chunk callback registered.
C22_StartIdempotent ==
  /\ [][(Called("start") /\ mic.isRecording) =>
          /\ mic' = mic
          /\ trace'[Len(trace')].did = << >>
          /\ ~trace'[Len(trace')].threw]_vars
  /\ [](mic.isRecording => Cardinality(LiveCallbacks) = 1)

\* start() was called three times on a handle, the second and third time
\* while it was recording
C22_Witness ==
  /\ Len(trace) = 3
  /\ \A k \in 1..3 : trace[k].op = "start"
  /\ trace[1].did = <<"native.start", "emit.start">>
  /\ trace[3].did = << >>
  /\ mic.isRecording

\* C23: when the native start fails inside the start() of the microphone
\* source, the 'error' event reaches the owner's listener, the source stays
\* not recording, and start() returns to startMeeting without throwing (the
\* promise of startMeeting is not rejected by it).
C23_StartFailureContained ==
  [][(StartCalls /\ startRes'["microphone"] = "failed") =>
       /\ "microphone" \in errLog'
       /\ ~caps'["microphone"][capture["microphone"]].isRecording
       /\ rejected' = rejected]_vars

\* the calls so far that emitted the event ev
Emitted(ev) ==
  {k \in 1..Len(trace) : \E m \in 1..Len(trace[k].did) : trace[k].did[m] = ev}

\* C24: stop() on a MicrophoneCapture never throws; on a handle that is not
\* recording it changes nothing and emits nothing; on a recording handle it
\* leaves the handle not recording with its monitor released, whether or
\* not the native stop throws, and emits 'stop' once; so no 'stop' event is
\* emitted without a 'start' event before it.
C24_StopIdempotent ==
  /\ [][Called("stop") =>
          /\ ~trace'[Len(trace')].threw
          /\ ~mic'.isRecording
          /\ IF mic.isRecording
             THEN /\ ~mic'.monitor
                  /\ trace'[Len(trace')].did = <<"native.stop", "emit.stop">>
             ELSE /\ mic' = mic
                  /\ trace'[Len(trace')].did = << >>]_vars
  /\ [](Cardinality(Emitted("emit.stop")) <= Cardinality(Emitted("emit.start")))

\* a handle was started, stopped with the native stop throwing (the native
\* capture still runs), and stopped a second time
C24_Witness ==
  /\ Len(trace) = 3
  /\ trace[1].did = <<"native.start", "emit.start">>
  /\ trace[2].op = "stop" /\ trace[2].did = <<"native.stop", "emit.stop">>
  /\ trace[3].op = "stop" /\ trace[3].did = << >>
  /\ mic.native /\ ~mic.monitor /\ ~mic.isRecording

\* the handle's monitor was released: a stop() found the handle recording
Released == Emitted("emit.stop") # {}

\* C25: getSampleRate() on a MicrophoneCapture never throws and changes
\* nothing; it returns the rate of the device's native monitor while the
\* handle has one, and 16000 when the Rust class was missing at construction
\* or when a stop() has released the monitor.
C25_SampleRate ==
  [][Called("getSampleRate") =>
       /\ ~trace'[Len(trace')].threw
       /\ mic' = mic
       /\ trace'[Len(trace')].ret =
            (IF rustLoaded /\ ~Released THEN NativeRate(mic.dev) ELSE 16000)]_vars

\* the handle of device mic-2 reported the device's rate, was started and
\* stopped, and then reported the default rate
C25_Witness ==
  /\ Len(trace) = 4
  /\ mic.dev = "mic-2"
  /\ trace[1].op = "getSampleRate" /\ trace[1].ret = 44100
  /\ trace[2].did = <<"native.start", "emit.start">>
  /\ trace[3].did = <<"native.stop", "emit.stop">>
  /\ trace[4].op = "getSampleRate" /\ trace[4].ret = 16000

\* the session of the last startMeeting is active and that call set the
\* session's metadata (a call with device preferences always carries
\* metadata)
MetadataSet ==
  /\ hist # << >>
  /\ hist[Len(hist)] = "startAudio"

\* C26: the metadata of a session is written once: after the startMeeting
\* that set it, nothing overwrites it before the session's endMeeting, a
\* second startMeeting during the session included.
C26_MetadataWriteOnce ==
  [][MetadataSet => metadata' = metadata]_vars

\* the run meets no failure: the setup built both pipelines, the Rust class
\* is there, reconfigureAudio constructed one source per role and no
\* constructor threw, and no native start failed
NoFault ==
  /\ rustLoaded
  /\ \A r \in Roles :
       /\ stt[r].exists
       /\ Len(caps[r]) = 2 /\ caps[r][1].origin = "setup"
       /\ rcOut[r].ctorThrows = 0
       /\ startRes[r] # "failed"

\* startMeeting was called with audio.inputDeviceId = 'mic-2' only
AskedMic2 == rcOut["microphone"].want = "mic-2" /\ rcOut["system"].want = NoDevice

\* the microphone stream has emitted ('hello', false, 0.4) and then
\* ('hello world', true, 0.92), and the system stream nothing
TwoUserEvents ==
  /\ transcripts["system"] = << >>
  /\ Len(transcripts["microphone"]) = 2
  /\ transcripts["microphone"][1].seg = [text |-> "hello", isFinal |-> FALSE, confidence |-> 40]
  /\ transcripts["microphone"][2].seg = [text |-> "hello world", isFinal |-> TRUE, confidence |-> 92]

\* a sink holds exactly the two segments, as the user's, in order
TwoUserSegments(log) ==
  /\ Len(log) = 2
  /\ \A k \in 1..2 : log[k].speaker = "user" /\ log[k].id = k
  /\ log[1].text = "hello" /\ ~log[1].final /\ log[1].confidence = 40
  /\ log[2].text = "hello world" /\ log[2].final /\ log[2].confidence = 92

\* C27: in a run without failures, after startMeeting with
\* audio.inputDeviceId = 'mic-2' the microphone source is the one made for
\* mic-2 and both sources and streams are started; the two transcripts the
\* microphone stream then emits reach every sink as two segments of the
\* user, in order; the endMeeting that follows stops both pipelines, the
\* session's two segments are stored as one meeting and processMeeting is
\* called once, for that meeting, before endMeeting resolves.
C27_EndToEnd ==
  /\ []((hist = <<"startAudio">> /\ smPc = "none" /\ AskedMic2 /\ NoFault) =>
          /\ capture["microphone"] = 2
          /\ caps["microphone"][2].dev = "mic-2"
          /\ caps["microphone"][2].dataL /\ caps["microphone"][2].errL
          /\ \A r \in Roles : caps[r][capture[r]].isRecording /\ stt[r].listening)
  /\ [](TwoUserEvents =>
          TwoUserSegments(intel) /\ TwoUserSegments(launcher) /\ TwoUserSegments(overlay))
  /\ [][(hist = <<"startAudio">> /\ smPc = "none" /\ NoFault
            /\ hist' = <<"startAudio", "end">>) =>
          (\A r \in Roles : Stopped(r)')]_vars
  /\ [][(emPc = "awaitStop" /\ emPc' # emPc /\ TwoUserEvents /\ session = 2) =>
          /\ db' = <<[id |-> 1, segs |-> 2]>>
          /\ rag' = <<1>>
          /\ emPc' = "awaitRag"]_vars
  /\ [](hist = <<"startAudio", "end">> =>
          /\ Len(rag) <= 1
          /\ (emPc = "none" /\ rag # << >>) =>
               endLog = <<"stopped", "finalized", "processing", "processed", "resolved">>)

\* the whole run has happened without a failure
C27_Witness ==
  /\ hist = <<"startAudio", "end">>
  /\ AskedMic2 /\ NoFault
  /\ caps["microphone"][2].dev = "mic-2"
  /\ \A r \in Roles : startRes[r] = "started" /\ Stopped(r)
  /\ TwoUserEvents /\ TwoUserSegments(intel)
  /\ db = <<[id |-> 1, segs |-> 2]>>
  /\ rag = <<1>>
  /\ endLog = <<"stopped", "finalized", "processing", "processed", "resolved">>

\* endMeeting was the last lifecycle call, a startMeeting was called before
\* it, and every call has run to its end
EndedLast ==
  /\ hist # << >>
  /\ hist[Len(hist)] = "end"
  /\ \E k \in 1..Len(hist) : hist[k] \in {"start", "startAudio"}
  /\ pc = "idle" /\ smPc = "none" /\ emPc = "none"

\* C28: when endMeeting was invoked after a startMeeting and no startMeeting
\* after it, then once both calls have completed no capture source is
\* capturing and no stream is started, however the two calls interleave at
\* their awaits.
C28_EndWins ==
  EndedLast =>
    \A r \in Roles : Capturing(r) = {} /\ ~stt[r].listening

\* C29: once a role's block of reconfigureAudio is left, a source the
\* role's field holds is wired: it has the 'data' listener that forwards to
\* the role's stream and the 'error' listener, on every failure path.
C29_FieldIsWired ==
  \A r \in Roles :
    (BlockDone(r) /\ capture[r] # Null) =>
      (caps[r][capture[r]].dataL /\ caps[r][capture[r]].errL)

\* C30: updateGoogleCredentials gives the credentials path to the streams
\* of both roles: two streams that exist hold the same credentials, the
\* ones of the latest call.
C30_BothStreams ==
  (\A r \in Roles : stt[r].exists) => creds["system"] = creds["microphone"]

====
